---------------------------- MODULE Spec2Model ----------------------------
(***************************************************************************)
(* A model of mqtt_log.py: an MQTT subscriber that buffers every delivered *)
(* message on a queue and, once a second, drains the queue into a batch    *)
(* which it writes to an SQLite table and to a JSON-lines file.            *)
(*                                                                         *)
(* Two threads run the program: the paho network thread, which runs the    *)
(* callbacks on_connect, on_message and on_disconnect one at a time, and   *)
(* the main thread, which runs the persister loop and the shutdown path.   *)
(*                                                                         *)
(* Text is a sequence of code points, bytes a sequence of 0..255.          *)
(***************************************************************************)
EXTENDS Integers, Sequences, FiniteSets, TLC

\* ------------------------------------------------------------------ bounds

\* Messages accepted by on_message in one run.
MaxMsgs == 3

\* Messages accepted in one run of the specification with fairness, under
\* which the temporal properties are checked.
MaxLiveMsgs == 2

\* Length of the payloads on which the record codec is checked.
MaxPayloadLen == 3

\* ------------------------------------------------------------- record codec

IsCont(b) == b >= 128 /\ b <= 191

\* Length of the UTF-8 sequence that starts at b[i], 0 when the bytes there
\* are not a valid sequence (bytes.decode('utf-8') is strict: no overlong
\* forms, no surrogates, nothing above U+10FFFF).
Utf8SeqLen(b, i) ==
    LET n  == Len(b)
        b0 == b[i]
        c(k) == i + k <= n /\ IsCont(b[i + k])
        r(k, lo, hi) == i + k <= n /\ b[i + k] >= lo /\ b[i + k] <= hi
    IN  IF b0 <= 127 THEN 1
        ELSE IF b0 >= 194 /\ b0 <= 223 THEN (IF c(1) THEN 2 ELSE 0)
        ELSE IF b0 = 224 THEN (IF r(1, 160, 191) /\ c(2) THEN 3 ELSE 0)
        ELSE IF b0 = 237 THEN (IF r(1, 128, 159) /\ c(2) THEN 3 ELSE 0)
        ELSE IF b0 >= 225 /\ b0 <= 239 THEN (IF c(1) /\ c(2) THEN 3 ELSE 0)
        ELSE IF b0 = 240 THEN (IF r(1, 144, 191) /\ c(2) /\ c(3) THEN 4 ELSE 0)
        ELSE IF b0 >= 241 /\ b0 <= 243 THEN (IF c(1) /\ c(2) /\ c(3) THEN 4 ELSE 0)
        ELSE IF b0 = 244 THEN (IF r(1, 128, 143) /\ c(2) /\ c(3) THEN 4 ELSE 0)
        ELSE 0

\* The code point of the valid UTF-8 sequence of length k at b[i].
Utf8CodePoint(b, i, k) ==
    IF k = 1 THEN b[i]
    ELSE IF k = 2 THEN (b[i] - 192) * 64 + (b[i + 1] - 128)
    ELSE IF k = 3 THEN (b[i] - 224) * 4096 + (b[i + 1] - 128) * 64 + (b[i + 2] - 128)
    ELSE (b[i] - 240) * 262144 + (b[i + 1] - 128) * 4096
         + (b[i + 2] - 128) * 64 + (b[i + 3] - 128)

RECURSIVE Utf8ValidFrom(_, _)
Utf8ValidFrom(b, i) ==
    IF i > Len(b) THEN TRUE
    ELSE LET k == Utf8SeqLen(b, i)
         IN  k > 0 /\ Utf8ValidFrom(b, i + k)

\* Whether msg.payload.decode('utf-8') returns (TRUE) or raises
\* UnicodeDecodeError (FALSE).
Utf8Valid(b) == Utf8ValidFrom(b, 1)

RECURSIVE Utf8DecodeFrom(_, _)
Utf8DecodeFrom(b, i) ==
    IF i > Len(b) THEN << >>
    ELSE LET k == Utf8SeqLen(b, i)
         IN  << Utf8CodePoint(b, i, k) >> \o Utf8DecodeFrom(b, i + k)

\* msg.payload.decode('utf-8') for valid bytes: the text, as code points.
Utf8Decode(b) == Utf8DecodeFrom(b, 1)

\* The base64 alphabet: the character (a code point) of the 6-bit value v.
B64CharUrlSafe(v) ==
    IF v < 26 THEN 65 + v
    ELSE IF v < 52 THEN 97 + (v - 26)
    ELSE IF v < 62 THEN 48 + (v - 52)
    ELSE IF v = 62 THEN 45
    ELSE 95
B64Char(v) ==
    IF v < 26 THEN 65 + v
    ELSE IF v < 52 THEN 97 + (v - 26)
    ELSE IF v < 62 THEN 48 + (v - 52)
    ELSE IF v = 62 THEN 43
    ELSE 47

\* '='
B64Pad == 61

RECURSIVE B64EncodeFrom(_, _)
B64EncodeFrom(b, i) ==
    LET n == Len(b) IN
    IF i > n THEN << >>
    ELSE IF i = n THEN
        << B64Char(b[i] \div 4), B64Char((b[i] % 4) * 16), B64Pad, B64Pad >>
    ELSE IF i + 1 = n THEN
        << B64Char(b[i] \div 4),
           B64Char((b[i] % 4) * 16 + b[i + 1] \div 16),
           B64Char((b[i + 1] % 16) * 4),
           B64Pad >>
    ELSE
        << B64Char(b[i] \div 4),
           B64Char((b[i] % 4) * 16 + b[i + 1] \div 16),
           B64Char((b[i + 1] % 16) * 4 + b[i + 2] \div 64),
           B64Char(b[i + 2] % 64) >> \o B64EncodeFrom(b, i + 3)

\* base64.b64encode(payload).decode('utf-8'): the base64 text of the bytes.
B64Encode(b) == B64EncodeFrom(b, 1)

\* The payload on_message stores: the decoded text, or the base64 text of
\* the raw bytes when they are not valid UTF-8.
StoredPayload(b) == IF Utf8Valid(b) THEN Utf8Decode(b) ELSE B64Encode(b)

\* ------------------------------------------------------------------ inputs

\* "hello"
PayloadHello == << 104, 101, 108, 108, 111 >>

\* ff fe 00: not valid UTF-8
PayloadBinary == << 255, 254, 0 >>

\* The messages the broker delivers (msg.topic, msg.payload, msg.qos,
\* msg.retain).
Messages ==
    { [topic |-> "a/b", payload |-> PayloadHello, qos |-> 1, retain |-> FALSE],
      [topic |-> "x", payload |-> PayloadBinary, qos |-> 0, retain |-> TRUE] }

\* The bytes of the payloads on which the codec is checked: ASCII (00, 'h',
\* 7f), continuation bytes (82, a9, ac), lead bytes of two-, three- and
\* four-byte sequences (c3, e2, ed, f0), and bytes that occur in no UTF-8
\* text (c0, fe, ff).
CodecBytes == {0, 104, 127, 130, 169, 172, 192, 195, 226, 237, 240, 254, 255}

\* Every payload of at most MaxPayloadLen of these bytes, and a message for
\* each.
CodecPayloads == UNION { [1 .. n -> CodecBytes] : n \in 0 .. MaxPayloadLen }
CodecMessages ==
    { [topic |-> "a/b", payload |-> b, qos |-> 0, retain |-> FALSE] :
        b \in CodecPayloads }

\* datetime.now().strftime('%Y-%m-%d %H:%M:%S') at receipt.  The value takes
\* no part in what the program does next; the receipts of a run are given
\* the same second.
ReceiptTime == "2026-01-01 00:00:00"

\* Reason codes of a connect event (0 is success, 5 "not authorized") and of
\* a disconnect event the network causes (7 "connection lost").
ConnectCodes == {0, 5}
LostCodes == {7}

\* ------------------------------------------------------------------- state

VARIABLES
    session,    \* the client's session: "none", "connecting" (TCP up, CONNECT
                \* sent), "connected" (CONNACK 0), "refused" (CONNACK non-zero),
                \* "down" (connection lost or closed)
    subscribed, \* client.subscribe("#") was issued in this session
    netpc,      \* the network thread: "none" (not started), "loop", "backoff"
                \* (in on_disconnect's sleep), "dead" (an exception left a
                \* callback), "stopped" (loop_stop)
    lastRc,     \* the reason code of the last disconnect event (-1: none yet)
    reconnects, \* reconnect calls made for the last disconnect event
    everConnected, \* history: a session of this run was connected
    queue,      \* message_queue
    pc,         \* the main thread's position
    batch,      \* batch_messages
    idx,        \* position of the for loop over batch_messages
    pending,    \* rows inserted in the open, uncommitted SQLite transaction
    table,      \* the committed rows of mqtt_messages
    dbOpen,     \* conn is open
    file,       \* the lines of the JSON file
    accepted,   \* history: every record on_message has put on the queue
    batches,    \* history: the non-empty batches drained so far, by tick
    sqlTried,   \* history: per receipt number, the batches (their positions
                \* in batches) in which the record was passed to executemany
    fileTried,  \* history: per receipt number, the batches in which the
                \* record was passed to save_to_json
    sqlFailed,  \* history: receipt numbers whose batch's SQLite write raised
    fileFailed, \* history: receipt numbers whose file append raised
    interrupted, \* history: KeyboardInterrupt was raised in the main thread
    payloadIn,  \* history: msg.payload of the last message on_message got
    snapshot    \* history: the content of the queue at the moment the drain
                \* of the current tick took its first record

netVars == << session, subscribed, netpc, lastRc, reconnects, everConnected >>
sinkVars == << pending, table, dbOpen, file >>
histVars == << accepted, batches, sqlTried, fileTried, sqlFailed, fileFailed,
              payloadIn, snapshot >>
vars == << session, subscribed, netpc, lastRc, reconnects, everConnected,
           queue, pc,
           batch, idx, pending, table, dbOpen, file, accepted, batches,
           sqlTried, fileTried, sqlFailed, fileFailed, interrupted, payloadIn,
           snapshot >>

Recs == 1 .. MaxMsgs


\* ------------------------------------------------------------------ helpers

\* The receipt numbers of the records of a batch.
Nums(b) == { b[i].n : i \in 1 .. Len(b) }

RECURSIVE Flatten(_)
Flatten(ss) == IF ss = << >> THEN << >> ELSE Head(ss) \o Flatten(Tail(ss))

\* Queue.put: the record joins the tail of the queue.
QueuePut(q, e) == Append(q, e)

\* Queue.get on a non-empty queue: the head leaves the queue.
QueueGetLifo(q) == [item |-> q[Len(q)], rest |-> SubSeq(q, 1, Len(q) - 1)]
QueueGet(q) == [item |-> Head(q), rest |-> Tail(q)]

\* The tuple on_message builds: (topic, payload, datetime, qos, retain).
RecordOf(m, t) == << m.topic, StoredPayload(m.payload), t, m.qos, m.retain >>

\* The row one parameter tuple of the INSERT makes; id is the AUTOINCREMENT
\* key, and the boolean retain is bound as the integer 1 or 0.  n is history:
\* the receipt number of the record the row was made from.
RowOfSwapped(e, id) ==
    [id |-> id, topic |-> e.msg[2], payload |-> e.msg[1], datetime |-> e.msg[3],
     qos |-> e.msg[4], retain |-> IF e.msg[5] THEN 1 ELSE 0, n |-> e.n]
RowOf(e, id) ==
    [id |-> id, topic |-> e.msg[1], payload |-> e.msg[2], datetime |-> e.msg[3],
     qos |-> e.msg[4], retain |-> IF e.msg[5] THEN 1 ELSE 0, n |-> e.n]

\* The rows executemany inserts for the first k tuples of the batch, when
\* the table and the open transaction already hold `have` rows.
RowsOf(b, k, have) == [i \in 1 .. k |-> RowOf(b[i], have + i)]

\* The object save_to_json(*message) dumps as one line.
JsonLine(e) ==
    [topic |-> e.msg[1], payload |-> e.msg[2], datetime |-> e.msg[3],
     qos |-> e.msg[4], retain |-> e.msg[5], n |-> e.n]

\* The history of attempts after one more attempt, in batch t, on each
\* record of ns.
Tried(tried, ns, t) ==
    [n \in Recs |-> IF n \in ns THEN Append(tried[n], t) ELSE tried[n]]

\* The history of batches after the current tick's batch got the record e.
Drained(bs, b, e) ==
    IF b = << >> THEN Append(bs, << e >>)
    ELSE [bs EXCEPT ![Len(bs)] = Append(@, e)]

\* -------------------------------------------------------------------- Init

Init ==
    /\ session = "none"
    /\ subscribed = FALSE
    /\ netpc = "none"
    /\ lastRc = -1
    /\ reconnects = 0
    /\ everConnected = FALSE
    /\ queue = << >>
    /\ pc = "setup_sqlite"
    /\ batch = << >>
    /\ idx = 1
    /\ pending = << >>
    /\ table = << >>
    /\ dbOpen = FALSE
    /\ file = << >>
    /\ accepted = << >>
    /\ batches = << >>
    /\ sqlTried = [n \in Recs |-> << >>]
    /\ fileTried = [n \in Recs |-> << >>]
    /\ sqlFailed = {}
    /\ fileFailed = {}
    /\ interrupted = FALSE
    /\ payloadIn = << >>
    /\ snapshot = << >>

\* ----------------------------------------------------------------- startup

\* setup_sqlite(): connect and create the table, or raise (the process ends
\* with a traceback: the call is outside the try).
SetupSqlite ==
    /\ pc = "setup_sqlite"
    /\ \E ok \in BOOLEAN :
          /\ dbOpen' = ok
          /\ pc' = IF ok THEN "setup_mqtt" ELSE "crashed"
    /\ UNCHANGED << netVars, queue, batch, idx, pending, table, file,
                    histVars, interrupted >>

\* setup_mqtt(): client.connect() opens the connection and sends CONNECT, or
\* raises (broker unreachable), which ends the process.
SetupMqtt ==
    /\ pc = "setup_mqtt"
    /\ \E ok \in BOOLEAN :
          /\ session' = IF ok THEN "connecting" ELSE "none"
          /\ pc' = IF ok THEN "loop_start" ELSE "crashed"
    /\ UNCHANGED << subscribed, netpc, lastRc, reconnects, everConnected,
                    queue, batch, idx, sinkVars, histVars, interrupted >>

\* mqtt_client.loop_start(): the network thread starts.
LoopStart ==
    /\ pc = "loop_start"
    /\ netpc' = "loop"
    /\ pc' = "drain"
    /\ UNCHANGED << session, subscribed, lastRc, reconnects, everConnected,
                    queue, batch, idx, sinkVars, histVars, interrupted >>

\* ---------------------------------------------------------- network thread

\* on_connect subscribes to "#" when the reason code is 0.
SubscribesNever(rc) == FALSE
SubscribesOn(rc) == rc = 0

\* on_connect(reason_code): CONNACK arrived.
OnConnect ==
    /\ netpc = "loop"
    /\ session = "connecting"
    /\ \E rc \in ConnectCodes :
          /\ session' = IF rc = 0 THEN "connected" ELSE "refused"
          /\ subscribed' = SubscribesOn(rc)
          /\ everConnected' = (everConnected \/ rc = 0)
    /\ UNCHANGED << netpc, lastRc, reconnects, queue, pc, batch, idx,
                    sinkVars, histVars, interrupted >>

\* Whether the main thread holds the mutex of message_queue while it is at
\* position p.  Queue.empty() and Queue.get() take the mutex and release it
\* before they return, and the loop calls save_to_sqlite_batch and
\* save_to_json only after the drain has filled the local batch_messages:
\* the main thread holds the mutex at none of its positions.
QueueLockedDuringWrites(p) == p \in {"sqlite", "json"}
QueueLocked(p) == FALSE

\* on_message(msg): the broker delivers a message of the subscription.  The
\* record is built and put on the queue; the put needs the queue's mutex and,
\* the queue being unbounded, nothing else.  A run accepts at most max
\* messages, each one of msgs.
OnMessage(max, msgs) ==
    /\ netpc = "loop"
    /\ session = "connected"
    /\ subscribed
    /\ Len(accepted) < max
    /\ ~QueueLocked(pc)
    /\ \E m \in msgs :
          LET e == [n |-> Len(accepted) + 1, msg |-> RecordOf(m, ReceiptTime)]
          IN  /\ queue' = QueuePut(queue, e)
              /\ accepted' = Append(accepted, e)
              /\ payloadIn' = m.payload
    /\ UNCHANGED << netVars, pc, batch, idx, sinkVars, batches, sqlTried,
                    fileTried, sqlFailed, fileFailed, interrupted, snapshot >>

\* on_disconnect reconnects when the reason code is not 0.
ReconnectsOnAnyCode(rc) == TRUE
ReconnectsOn(rc) == rc # 0

\* on_disconnect(reason_code) in the network thread: the connection was
\* lost.  With a non-zero code the callback goes to sleep for the backoff.
OnDisconnect ==
    /\ netpc = "loop"
    /\ session \in {"connecting", "connected", "refused"}
    /\ \E rc \in LostCodes :
          /\ lastRc' = rc
          /\ netpc' = IF ReconnectsOn(rc) THEN "backoff" ELSE "loop"
    /\ session' = "down"
    /\ subscribed' = FALSE
    /\ reconnects' = 0
    /\ UNCHANGED << everConnected, queue, pc, batch, idx, sinkVars, histVars,
                    interrupted >>

\* What the network thread does when client.reconnect() raises inside
\* on_disconnect: nothing catches it, the exception leaves the callback and
\* ends the thread.
AfterReconnectRetry(ok) == IF ok THEN "loop" ELSE "backoff"
AfterReconnect(ok) == IF ok THEN "loop" ELSE "dead"

\* The end of on_disconnect's sleep: client.reconnect() opens a new
\* connection and sends CONNECT, or raises OSError (broker unreachable).
Reconnect ==
    /\ netpc = "backoff"
    /\ reconnects' = reconnects + 1
    /\ \E ok \in BOOLEAN :
          /\ session' = IF ok THEN "connecting" ELSE "down"
          /\ netpc' = AfterReconnect(ok)
    /\ UNCHANGED << subscribed, lastRc, everConnected, queue, pc, batch, idx,
                    sinkVars, histVars, interrupted >>


\* ------------------------------------------------------------- main thread

\* The test of the drain loop, "while not message_queue.empty()": the drain
\* of a tick ends when it finds the queue q empty, whatever the batch b holds.
DrainEndsAfterFirst(q, b) == q = << >> \/ b # << >>
DrainEnds(q, b) == q = << >>

\* One turn of "while not message_queue.empty(): batch_messages.append(
\* message_queue.get())" with a record on the queue.  The main thread is the
\* only consumer, so the record empty() saw is the one get() returns.
DrainGet ==
    /\ pc = "drain"
    /\ ~DrainEnds(queue, batch)
    /\ batch' = Append(batch, QueueGet(queue).item)
    /\ queue' = QueueGet(queue).rest
    /\ batches' = Drained(batches, batch, QueueGet(queue).item)
    /\ snapshot' = IF batch = << >> THEN queue ELSE snapshot
    /\ UNCHANGED << netVars, pc, idx, sinkVars, accepted, sqlTried, fileTried,
                    sqlFailed, fileFailed, interrupted, payloadIn >>

\* "if batch_messages:": a tick writes to the sinks when its batch is not
\* empty.
WritesBatchAlways(b) == TRUE
WritesBatch(b) == b # << >>

\* message_queue.empty() is true: the drain loop ends.
DrainDone ==
    /\ pc = "drain"
    /\ DrainEnds(queue, batch)
    /\ pc' = IF WritesBatch(batch) THEN "sqlite" ELSE "sleep"
    /\ UNCHANGED << netVars, queue, batch, idx, sinkVars, histVars,
                    interrupted >>

\* Where the main thread goes after save_to_sqlite_batch: its "except
\* Exception" catches and logs the failure, and the tick goes on.
AfterSqliteUncaught(failed) == IF failed THEN "loop_stop" ELSE "json"
AfterSqliteSkipsFile(failed) == IF failed THEN "sleep" ELSE "json"
AfterSqlite(failed) == "json"

\* The order in which the rows of a batch are inserted: the batch's.
Reversed(b) == [i \in 1 .. Len(b) |-> b[Len(b) + 1 - i]]
InsertOrder(b) == b

\* The open transaction after a failed write: SQLite may have rolled the
\* whole transaction back by itself; the code never rolls back, so otherwise
\* the rows inserted so far stay in the open transaction.
KeptAfterFailureNone(rows, autoRollback) == << >>
KeptAfterFailure(rows, autoRollback) == IF autoRollback THEN << >> ELSE rows

\* save_to_sqlite_batch(cursor, conn, batch_messages): executemany inserts
\* the rows one by one in one transaction and commit makes them durable.
\* executemany may raise after k rows (k < Len(batch)), or commit may raise
\* (k = Len(batch), ~commitOk).
SaveToSqliteBatch ==
    /\ pc = "sqlite"
    /\ \E k \in 0 .. Len(batch), commitOk \in BOOLEAN, autoRollback \in BOOLEAN :
          LET ok   == k = Len(batch) /\ commitOk
              rows == pending \o RowsOf(InsertOrder(batch), k,
                                        Len(table) + Len(pending))
          IN  /\ ok => ~autoRollback
              /\ table' = IF ok THEN table \o rows ELSE table
              /\ pending' = IF ok THEN << >>
                            ELSE KeptAfterFailure(rows, autoRollback)
              /\ sqlFailed' = IF ok THEN sqlFailed ELSE sqlFailed \cup Nums(batch)
              /\ pc' = AfterSqlite(~ok)
    /\ sqlTried' = Tried(sqlTried, Nums(batch), Len(batches))
    /\ idx' = 1
    /\ UNCHANGED << netVars, queue, batch, dbOpen, file, accepted,
                    batches, fileTried, fileFailed, interrupted,
                    payloadIn, snapshot >>

\* Where the for loop goes after save_to_json on batch[i]: the function
\* catches and logs the failure, and the loop goes on to the next record.
AfterJsonStopsOnFailure(failed, i, len) == IF failed \/ i = len THEN "sleep" ELSE "json"
AfterJson(failed, i, len) == IF i = len THEN "sleep" ELSE "json"

\* One turn of "for message in batch_messages: save_to_json(*message)": the
\* file is opened for append and the line written, or either raises.
SaveToJson ==
    /\ pc = "json"
    /\ idx <= Len(batch)
    /\ \E ok \in BOOLEAN :
          /\ file' = IF ok THEN Append(file, JsonLine(batch[idx])) ELSE file
          /\ fileFailed' = IF ok THEN fileFailed ELSE fileFailed \cup {batch[idx].n}
          /\ pc' = AfterJson(~ok, idx, Len(batch))
    /\ fileTried' = Tried(fileTried, {batch[idx].n}, Len(batches))
    /\ idx' = idx + 1
    /\ UNCHANGED << netVars, queue, batch, pending, table, dbOpen,
                    accepted, batches, sqlTried, sqlFailed, interrupted,
                    payloadIn, snapshot >>

\* time.sleep(1) ends and the next tick begins with "batch_messages = []".
Sleep ==
    /\ pc = "sleep"
    /\ pc' = "drain"
    /\ batch' = << >>
    /\ snapshot' = << >>
    /\ UNCHANGED << netVars, queue, idx, sinkVars, accepted, batches, sqlTried,
                    fileTried, sqlFailed, fileFailed, interrupted,
                    payloadIn >>

\* KeyboardInterrupt in the main loop: "except KeyboardInterrupt" logs and
\* the finally block runs.
Interrupt ==
    /\ pc \in {"drain", "sqlite", "json", "sleep"}
    /\ pc' = "loop_stop"
    /\ interrupted' = TRUE
    /\ UNCHANGED << netVars, queue, batch, idx, sinkVars, histVars >>

\* mqtt_client.loop_stop(): the network thread is told to stop and joined;
\* a callback in progress (on_disconnect's sleep and reconnect) ends first.
LoopStop ==
    /\ pc = "loop_stop"
    /\ netpc # "backoff"
    /\ netpc' = IF netpc = "dead" THEN "dead" ELSE "stopped"
    /\ pc' = "disconnect"
    /\ UNCHANGED << session, subscribed, lastRc, reconnects, everConnected,
                    queue, batch, idx, sinkVars, histVars, interrupted >>

\* mqtt_client.disconnect(): with a connection open, DISCONNECT is sent, the
\* client runs on_disconnect with reason code 0 in the calling thread and
\* closes the connection.  on_disconnect reconnects only on a non-zero code.
Disconnect ==
    /\ pc = "disconnect"
    /\ IF session \in {"connecting", "connected", "refused"}
       THEN /\ lastRc' = 0
            /\ reconnects' = IF ReconnectsOn(0) THEN 1 ELSE 0
            /\ session' = IF ReconnectsOn(0) THEN "connecting" ELSE "down"
            /\ subscribed' = FALSE
       ELSE UNCHANGED << lastRc, reconnects, session, subscribed >>
    /\ pc' = "close"
    /\ UNCHANGED << netpc, everConnected, queue, batch, idx, sinkVars, histVars,
                    interrupted >>

\* cursor.close(); conn.close(): closing the connection drops the open
\* transaction.  Then the process ends.
Close ==
    /\ pc = "close"
    /\ pending' = << >>
    /\ dbOpen' = FALSE
    /\ pc' = "exited"
    /\ UNCHANGED << netVars, queue, batch, idx, table, file, histVars,
                    interrupted >>

\* -------------------------------------------------------------------- Spec

Main ==
    \/ SetupSqlite
    \/ SetupMqtt
    \/ LoopStart
    \/ DrainGet
    \/ DrainDone
    \/ SaveToSqliteBatch
    \/ SaveToJson
    \/ Sleep
    \/ LoopStop
    \/ Disconnect
    \/ Close

Network(max) ==
    \/ OnConnect
    \/ OnMessage(max, Messages)
    \/ OnDisconnect
    \/ Reconnect

Next ==
    \/ Main
    \/ Network(MaxMsgs)
    \/ Interrupt

Spec == Init /\ [][Next]_vars

NextLive ==
    \/ Main
    \/ Network(MaxLiveMsgs)
    \/ Interrupt


\* The main thread runs as long as the process does, and a sleep ends.
\* KeyboardInterrupt, the broker's events and its messages may never come.
FairSpec == Init /\ [][NextLive]_vars /\ WF_vars(Main) /\ WF_vars(Reconnect)

\* The record codec of on_message on its own.  The run has started, the
\* session is connected and subscribed and nothing has been delivered yet;
\* the broker then delivers one message whose payload is any of
\* CodecPayloads.
CodecInit ==
    /\ session = "connected"
    /\ subscribed = TRUE
    /\ netpc = "loop"
    /\ lastRc = -1
    /\ reconnects = 0
    /\ everConnected = TRUE
    /\ queue = << >>
    /\ pc = "drain"
    /\ batch = << >>
    /\ idx = 1
    /\ pending = << >>
    /\ table = << >>
    /\ dbOpen = TRUE
    /\ file = << >>
    /\ accepted = << >>
    /\ batches = << >>
    /\ sqlTried = [n \in Recs |-> << >>]
    /\ fileTried = [n \in Recs |-> << >>]
    /\ sqlFailed = {}
    /\ fileFailed = {}
    /\ interrupted = FALSE
    /\ payloadIn = << >>
    /\ snapshot = << >>

CodecNext == OnMessage(1, CodecMessages)

CodecSpec == CodecInit /\ [][CodecNext]_vars

\* ------------------------------------------------------------------ claims

InTable(n) == \E i \in 1 .. Len(table) : table[i].n = n
InFile(n) == \E i \in 1 .. Len(file) : file[i].n = n

\* The main thread is in the persister loop.
InLoop == pc \in {"drain", "sqlite", "json", "sleep"}

\* The main thread is in the finally block or past it.
ShuttingDown == pc \in {"loop_stop", "disconnect", "close", "exited"}

\* Record n is in the batch of the tick in progress and its file append is
\* yet to come.
FileOwed(n) ==
    /\ pc \in {"sqlite", "json"}
    /\ \E i \in 1 .. Len(batch) : batch[i].n = n /\ (pc = "json" => i >= idx)

\* C1: for every interleaving of pushes with drains, the drained batches,
\* one after the other, followed by what is still queued, are exactly the
\* pushed records in push order: every pushed record is in one batch or
\* still queued, none twice, none lost.
C1_DrainedInPushOrder ==
    /\ Flatten(batches) \o queue = accepted
    /\ \A i \in 1 .. Len(accepted) : accepted[i].n = i
    /\ \A i \in 1 .. Len(batches) : batches[i] # << >>
    /\ InLoop /\ batch # << >> => batch = batches[Len(batches)]

\* C1 witness: a second batch is being drained while a record pushed during
\* the drain waits on the queue.
C1_Witness ==
    /\ pc = "drain"
    /\ Len(batches) = 2
    /\ Len(batch) = 1
    /\ Len(queue) = 1
    /\ Len(accepted) = 3

\* The tick that drained record n is over, or has written n's batch to the
\* table and n's line to the file.
TickDone(n) ==
    /\ n \in Nums(Flatten(batches))
    /\ n \in Nums(batch) => pc = "sleep"

\* C2, as first stated: every record put on the queue is written to the
\* table and to the file by the tick that drained it, unless the process is
\* shutting down.  The code writes a record in that tick or never: stated on
\* the tick's end.
C2_WrittenToBothSinks ==
    \A n \in Recs :
        InLoop /\ TickDone(n) => InTable(n) /\ InFile(n)

\* Record n was passed to both writes of one and the same tick, once each,
\* and is in every sink whose write of it did not fail.
Handled(n) ==
    /\ Len(sqlTried[n]) = 1
    /\ fileTried[n] = sqlTried[n]
    /\ n \notin sqlFailed => InTable(n)
    /\ n \notin fileFailed => InFile(n)

\* C2, amended: every record put on the queue is eventually passed to the
\* SQLite write and to the file append of one and the same tick, and is then
\* in each sink whose write did not fail, unless the process is shutting
\* down.
C2_EventuallyHandled ==
    \A n \in Recs : (Len(accepted) >= n) ~> (ShuttingDown \/ Handled(n))

\* C2 witness: the second record, drained in a second tick, was passed to
\* both sinks in that tick and is in both, after the first tick's writes of
\* the first record failed on both sinks.
C2_Witness ==
    /\ InLoop
    /\ Handled(2) /\ InTable(2) /\ InFile(2)
    /\ sqlTried[2] = << 2 >>
    /\ Handled(1) /\ ~InTable(1) /\ ~InFile(1)

\* The row and the line of record e carry its topic, payload, qos and retain.
RowMatches(r, e) ==
    /\ r.topic = e.msg[1]
    /\ r.payload = e.msg[2]
    /\ r.qos = e.msg[4]
    /\ r.retain = (IF e.msg[5] THEN 1 ELSE 0)
    /\ r.n = e.n

\* C3: while no sink write has failed, no record is in the table twice, and
\* once the queue is drained by completed ticks the table holds one row per
\* accepted message, in order, with that message's topic, payload, qos and
\* retain (and so does the file).
C3_RowPerAcceptedMessage ==
    sqlFailed = {} /\ fileFailed = {} =>
        /\ \A i, j \in 1 .. Len(table) : table[i].n = table[j].n => i = j
        /\ \A i, j \in 1 .. Len(file) : file[i].n = file[j].n => i = j
        /\ queue = << >> /\ (pc = "sleep" \/ (pc = "drain" /\ batch = << >>)) =>
              /\ Len(table) = Len(accepted)
              /\ Len(file) = Len(accepted)
              /\ \A i \in 1 .. Len(accepted) :
                    /\ RowMatches(table[i], accepted[i])
                    /\ table[i].id = i
                    /\ file[i].n = i

\* C3 witness: three messages accepted, drained in two ticks without a
\* failure; the table holds three rows, the first ("a/b", "hello", 1, 0), the
\* second with the base64 text of ff fe 00 ("//4A").
C3_Witness ==
    /\ sqlFailed = {} /\ fileFailed = {}
    /\ pc = "sleep" /\ queue = << >>
    /\ Len(accepted) = 3 /\ Len(table) = 3 /\ Len(batches) = 2
    /\ table[1].topic = "a/b" /\ table[1].payload = PayloadHello
    /\ table[1].qos = 1 /\ table[1].retain = 0
    /\ table[2].topic = "x" /\ table[2].payload = << 47, 47, 52, 65 >>
    /\ table[2].qos = 0 /\ table[2].retain = 1

\* C4: a record is passed to the file append only after its batch was passed
\* to the SQLite write; and a record whose batch failed on SQLite is still
\* passed to the file append, once, in the same tick, and appended unless
\* the append itself fails (or the process is interrupted first).
C4_FileAfterSqliteEvenOnFailure ==
    /\ \A n \in Recs : fileTried[n] # << >> => sqlTried[n] # << >>
    /\ pc = "json" => \A i \in 1 .. Len(batch) : sqlTried[batch[i].n] # << >>
    /\ \A n \in sqlFailed :
          \/ interrupted
          \/ FileOwed(n)
          \/ /\ fileTried[n] = sqlTried[n]
             /\ n \notin fileFailed => InFile(n)

\* C4 witness: a batch of two failed on SQLite, nothing of it is in the table
\* or the open transaction, and both its records are in the file.
C4_Witness ==
    /\ pc = "sleep"
    /\ Len(batch) = 2
    /\ Nums(batch) \subseteq sqlFailed
    /\ table = << >> /\ pending = << >>
    /\ \A n \in Nums(batch) : InFile(n)
    /\ ~interrupted

\* C5: a failed sink write never ends the persister loop: the main thread
\* leaves the loop only on KeyboardInterrupt, and after any failures every
\* accepted record is still passed to both sinks, unless the process is
\* interrupted.
C5_LoopSurvivesFailures ==
    /\ [](ShuttingDown => interrupted)
    /\ \A n \in Recs :
          (Len(accepted) >= n /\ sqlFailed \cup fileFailed # {})
              ~> (interrupted \/ (sqlTried[n] # << >> /\ fileTried[n] # << >>))

\* C5 witness: the first tick's writes of record 1 failed on both sinks; the
\* loop went on and a later tick passed record 2 to both sinks.
C5_Witness ==
    /\ pc = "sleep"
    /\ 1 \in sqlFailed /\ 1 \in fileFailed
    /\ sqlTried[2] = << 2 >> /\ fileTried[2] = << 2 >>
    /\ ~interrupted

\* The places record n is in: the queue and the drained batches.
Copies(n) ==
    Cardinality({ i \in 1 .. Len(queue) : queue[i].n = n })
    + Cardinality({ i \in 1 .. Len(Flatten(batches)) : Flatten(batches)[i].n = n })

\* C6: nothing is re-queued or retried: every accepted record is in the queue
\* or in one drained batch, never both, is passed to each sink at most once,
\* and a record whose batch failed on a sink is never in that sink.
C6_NoRetryFailedStaysLost ==
    \A n \in Recs :
        /\ n <= Len(accepted) => Copies(n) = 1
        /\ Len(sqlTried[n]) <= 1
        /\ Len(fileTried[n]) <= 1
        /\ n \in sqlFailed => ~InTable(n)
        /\ n \in fileFailed => ~InFile(n)

\* C7: in each sink the records are in receipt order: the table's rows by id
\* and the file's lines by position carry strictly increasing receipt
\* numbers, each the unaltered record of that receipt.
C7_SinksInReceiptOrder ==
    /\ \A i, j \in 1 .. Len(table) :
          i < j => table[i].id < table[j].id /\ table[i].n < table[j].n
    /\ \A i, j \in 1 .. Len(file) : i < j => file[i].n < file[j].n
    /\ \A i \in 1 .. Len(table) :
          table[i].n <= Len(accepted) /\ RowMatches(table[i], accepted[table[i].n])
    /\ \A i \in 1 .. Len(file) :
          file[i].n <= Len(accepted) /\ file[i] = JsonLine(accepted[file[i].n])

\* C7 witness: two ticks wrote three records; a failed append left a gap in
\* the file, and both sinks are in receipt order.
C7_Witness ==
    /\ Len(batches) = 2
    /\ Len(table) = 3
    /\ Len(file) = 2 /\ file[1].n = 1 /\ file[2].n = 3
    /\ accepted[1].msg = accepted[3].msg

\* The last disconnect event carried a non-zero reason code.
Unexpected == lastRc # -1 /\ lastRc # 0

\* C8: a disconnect event with a non-zero reason code first sleeps the
\* backoff with no reconnect call made, then makes exactly one reconnect call
\* for that event; and a session connected after it has subscribed to "#".
C8_OneReconnectPerEvent ==
    /\ netpc = "backoff" => Unexpected /\ reconnects = 0
    /\ Unexpected /\ netpc # "backoff" => reconnects = 1
    /\ reconnects <= 1
    /\ Unexpected /\ session = "connected" => subscribed

\* C8 witness: after a disconnect with reason code 7 one reconnect call was
\* made, the broker accepted the new session, "#" is subscribed again and a
\* message of the new subscription was accepted.
C8_Witness ==
    /\ lastRc = 7
    /\ reconnects = 1
    /\ netpc = "loop"
    /\ session = "connected"
    /\ subscribed
    /\ Len(accepted) = 1

\* C9: a connectivity fault after a successful start is never fatal: while
\* the session is down after an unexpected disconnect of a run that was
\* connected, and the process is not shutting down, a reconnect attempt is
\* on its way (the network thread is in the backoff that precedes one), also
\* after an attempt has failed.
C9_ReconnectAlwaysPending ==
    everConnected /\ Unexpected /\ session = "down" /\ ~ShuttingDown
        => netpc = "backoff"

\* C10: every successful connect event, the first or a later one, issues the
\* subscription to "#": a connected session has subscribed, and a session
\* becomes connected only in a step that issues the subscription.
C10_ConnectedIsSubscribed ==
    /\ [](session = "connected" => subscribed)
    /\ [][session' = "connected" /\ session # "connected" => subscribed' /\ ~subscribed]_vars

\* C10 witness: the first session is connected and subscribed, no disconnect
\* has happened yet.
C10_Witness ==
    /\ session = "connected"
    /\ subscribed
    /\ lastRc = -1
    /\ reconnects = 0

\* The first connection attempt of the run has failed: client.connect()
\* raised in setup_mqtt, or the broker answered the first CONNECT with a
\* non-zero reason code and nothing has happened to the session since.
ConnectRaised == session = "none" /\ pc \notin {"setup_sqlite", "setup_mqtt"}
StartupRefused == session = "refused" /\ ~everConnected /\ lastRc = -1

\* C11: a connection failure during the initial startup is fatal and is not
\* retried: when client.connect() raises the process has terminated, when the
\* broker refuses the first connection the persister loop does not begin
\* another tick, and no reconnect is started while the run has never been
\* connected.
C11_StartupFailureFatal ==
    /\ [](ConnectRaised => pc = "crashed")
    /\ [][StartupRefused => ~(pc = "sleep" /\ pc' = "drain")]_vars
    /\ [](~everConnected => netpc # "backoff" /\ reconnects = 0)

\* C12: on an interrupt the shutdown is orderly: the network thread stops
\* accepting events first, the records still in the buffer are then drained
\* and flushed to both sinks, the sinks are closed, and nothing is pushed or
\* written after the close.  When the process has exited after an interrupt,
\* the network thread had stopped, the buffer is empty and every accepted
\* record was passed to the relational write and to the file append.
C12_OrderlyShutdown ==
    /\ pc \in {"disconnect", "close", "exited"} => netpc \in {"stopped", "dead"}
    /\ pc = "exited" => ~dbOpen /\ pending = <<>>
    /\ pc = "exited" /\ interrupted =>
          /\ queue = <<>>
          /\ \A n \in 1..Len(accepted) : sqlTried[n] # <<>> /\ fileTried[n] # <<>>

\* The receipt numbers of the rows in the committed table.
TableNums == {table[i].n : i \in 1..Len(table)}

\* C16: the relational write is all-or-nothing per batch: the committed table
\* holds, for every drained batch, either a row for each of its records or no
\* row of it; the rows of a batch whose insert failed part-way are never made
\* durable by the commit of a later batch.
C16_BatchAllOrNothing ==
    \A b \in 1..Len(batches) :
        \/ Nums(batches[b]) \cap TableNums = {}
        \/ Nums(batches[b]) \subseteq TableNums

\* C17: a disconnect event with reason code 0 never triggers the backoff or
\* a reconnect: after one the session stays down with no reconnect call, and
\* the network thread is in the backoff, or a reconnect call has been made,
\* only after a disconnect event with a non-zero reason code.
C17_NoReconnectOnDeliberateDisconnect ==
    /\ lastRc = 0 => reconnects = 0 /\ netpc # "backoff" /\ session = "down"
    /\ netpc = "backoff" \/ reconnects > 0 => Unexpected

\* C17 witness: the shutdown has called disconnect() on an open session, the
\* disconnect event carried reason code 0, and the process has exited without
\* a reconnect.
C17_Witness ==
    /\ pc = "exited"
    /\ interrupted
    /\ everConnected
    /\ lastRc = 0
    /\ reconnects = 0
    /\ session = "down"

\* Some sink has been written to, or a write of it has been issued.
SinkTouched ==
    \/ table' # table
    \/ file' # file
    \/ sqlTried' # sqlTried
    \/ fileTried' # fileTried
    \/ sqlFailed' # sqlFailed
    \/ fileFailed' # fileFailed

\* C18: a tick whose drain returns an empty batch leaves both sinks
\* unchanged: the loop goes from the drain straight to its sleep, no
\* relational insert or commit and no file append is issued, and a sink is
\* written only in a tick whose batch is non-empty.
C18_EmptyTickWritesNothing ==
    /\ [](pc \in {"sqlite", "json"} => batch # <<>>)
    /\ [][pc = "drain" /\ pc' # "drain" /\ batch' = <<>> /\ ~interrupted'
            => pc' = "sleep"]_vars
    /\ [][SinkTouched => batch # <<>> /\ pc \in {"sqlite", "json"}]_vars

\* C18 witness: a tick has drained an empty batch and sleeps, after an
\* earlier tick stored a record; the sinks hold what that tick wrote.
C18_Witness ==
    /\ pc = "sleep"
    /\ batch = <<>>
    /\ Len(batches) = 1
    /\ Len(table) = 1
    /\ Len(file) = 1
    /\ pending = <<>>

\* C19: file-sink failures are isolated per record: a failed append does not
\* stop the remaining appends of its batch and does not touch the relational
\* sink.  When the tick of a batch is over, the append of every record of the
\* batch was issued once, the file holds a line of exactly those whose append
\* did not fail, in batch order, and no step of the file loop changes the
\* table or the open transaction.
C19_FileFailuresIsolated ==
    /\ [](pc = "sleep" =>
            \A i \in 1..Len(batch) :
                /\ Len(fileTried[batch[i].n]) = 1
                /\ InFile(batch[i].n) <=> batch[i].n \notin fileFailed)
    /\ [](\A i, j \in 1..Len(file) : i < j => file[i].n < file[j].n)
    /\ [][pc = "json" /\ pc' \in {"json", "sleep"}
            => table' = table /\ pending' = pending]_vars

\* C19 witness: a batch of two records whose first append failed and whose
\* second append was written, with both rows in the table.
C19_Witness ==
    /\ pc = "sleep"
    /\ Len(batch) = 2
    /\ batch[1].n \in fileFailed
    /\ InFile(batch[2].n)
    /\ InTable(batch[1].n)
    /\ InTable(batch[2].n)

\* The network thread is delivering messages of an open subscription, and
\* the run has not yet accepted all the messages it is going to get.
Delivering ==
    /\ netpc = "loop"
    /\ session = "connected"
    /\ subscribed
    /\ Len(accepted) < MaxMsgs

\* A step taken while the main thread is writing a batch leaves the batch as
\* it was drained and takes nothing from the buffer.
WritesLeaveBuffer ==
    pc \in {"sqlite", "json"} =>
        /\ batch' = batch
        /\ \/ queue' = queue
           \/ \E i \in 1..Len(accepted') : queue' = Append(queue, accepted'[i])

BatchDrained == pc \in {"sqlite", "json", "sleep"} /\ batch # <<>>

\* s is a prefix of t.
IsPrefix(s, t) == Len(s) <= Len(t) /\ SubSeq(t, 1, Len(s)) = s

\* C14: the drain of a tick is atomic with respect to concurrent pushes: the
\* batch is the content the buffer had at one single instant, the one at
\* which the drain took its first record, so that a record pushed after the
\* drain has started is not part of the batch.
C14_BatchIsSnapshot == BatchDrained => batch = snapshot

\* The drain ends: the main thread leaves the drain loop for the writes or
\* for the sleep.
DrainEnding == pc = "drain" /\ pc' \in {"sqlite", "sleep"}

\* C14, amended: the drain takes the records one at a time until it finds the
\* buffer empty.  Its batch begins with the content the buffer had when the
\* drain took its first record and goes on with the records pushed while the
\* drain ran, in push order; the drain ends only at an instant at which the
\* buffer is empty, with the batch as drained, and records pushed after that
\* instant stay in the buffer for a later tick.
C14_DrainUntilEmpty ==
    /\ [](BatchDrained => IsPrefix(snapshot, batch))
    /\ [](batch # <<>> /\ ~ShuttingDown =>
            \A i \in 1..Len(batch) : \A j \in 1..Len(queue) :
                batch[i].n < queue[j].n)
    /\ [][DrainEnding => queue = <<>> /\ queue' = <<>> /\ batch' = batch]_vars

\* C14 witness: a batch of two records of which only the first was in the
\* buffer when the drain started; the second was pushed during the drain.
C14_Witness ==
    /\ BatchDrained
    /\ Len(batch) = 2
    /\ Len(snapshot) = 1

\* The 6-bit value of a character of the base64 alphabet, -1 for any other
\* character.
B64Value(c) ==
    IF c >= 65 /\ c <= 90 THEN c - 65
    ELSE IF c >= 97 /\ c <= 122 THEN c - 97 + 26
    ELSE IF c >= 48 /\ c <= 57 THEN c - 48 + 52
    ELSE IF c = 43 THEN 62
    ELSE IF c = 47 THEN 63
    ELSE -1

\* The bytes a base64 text stands for, as a decoder of the standard alphabet
\* with padding reads them; << -1 >> for a text that is not base64.
RECURSIVE B64DecodeFrom(_, _)
B64DecodeFrom(s, i) ==
    IF i > Len(s) THEN << >>
    ELSE IF i + 3 > Len(s) THEN << -1 >>
    ELSE LET v1 == B64Value(s[i])
             v2 == B64Value(s[i + 1])
             v3 == B64Value(s[i + 2])
             v4 == B64Value(s[i + 3])
             last == i + 3 = Len(s)
         IN  IF v1 < 0 \/ v2 < 0 THEN << -1 >>
             ELSE IF last /\ s[i + 2] = B64Pad /\ s[i + 3] = B64Pad THEN
                 IF v2 % 16 = 0 THEN << v1 * 4 + (v2 \div 16) >> ELSE << -1 >>
             ELSE IF v3 < 0 THEN << -1 >>
             ELSE IF last /\ s[i + 3] = B64Pad THEN
                 IF v3 % 4 = 0
                 THEN << v1 * 4 + (v2 \div 16), (v2 % 16) * 16 + (v3 \div 4) >>
                 ELSE << -1 >>
             ELSE IF v4 < 0 THEN << -1 >>
             ELSE << v1 * 4 + (v2 \div 16),
                     (v2 % 16) * 16 + (v3 \div 4),
                     (v3 % 4) * 64 + v4 >> \o B64DecodeFrom(s, i + 4)
B64Decode(s) == B64DecodeFrom(s, 1)

\* The UTF-8 bytes of one code point, and of a text.
Utf8EncodeChar(c) ==
    IF c < 128 THEN << c >>
    ELSE IF c < 2048 THEN << 192 + (c \div 64), 128 + (c % 64) >>
    ELSE IF c < 65536 THEN
        << 224 + (c \div 4096), 128 + ((c \div 64) % 64), 128 + (c % 64) >>
    ELSE << 240 + (c \div 262144), 128 + ((c \div 4096) % 64),
            128 + ((c \div 64) % 64), 128 + (c % 64) >>
RECURSIVE Utf8Encode(_)
Utf8Encode(t) ==
    IF t = << >> THEN << >> ELSE Utf8EncodeChar(Head(t)) \o Utf8Encode(Tail(t))

\* A text of Unicode scalar values: code points up to U+10FFFF, no
\* surrogates.
IsText(t) ==
    \A i \in 1 .. Len(t) :
        t[i] >= 0 /\ t[i] <= 1114111 /\ ~(t[i] >= 55296 /\ t[i] <= 57343)

\* C15: the record codec round-trips every payload.  For a payload that is
\* valid UTF-8 the stored payload is the decoded text verbatim: a text whose
\* UTF-8 encoding is the payload.  For any other payload the stored payload is
\* the base64 text of the raw bytes, and base64-decoding it gives back the
\* payload.
C15_CodecRoundTrip ==
    \A k \in 1 .. Len(accepted) :
        LET stored == accepted[k].msg[2]
        IN  IF Utf8Valid(payloadIn)
            THEN /\ IsText(stored)
                 /\ Utf8Encode(stored) = payloadIn
            ELSE /\ stored = B64Encode(payloadIn)
                 /\ B64Decode(stored) = payloadIn

\* C15 witness: the payload ff fe 00 has been stored as the base64 text
\* "//4A".
C15_Witness ==
    /\ Len(accepted) = 1
    /\ payloadIn = << 255, 254, 0 >>
    /\ accepted[1].msg[2] = << 47, 47, 52, 65 >>
    /\ B64Decode(accepted[1].msg[2]) = payloadIn

=============================================================================
